---- MODULE Spec2Model ----
(***************************************************************************)
(* ControlBoard_nws_ros2: a periodic thread that samples the joint state   *)
(* of a control board and publishes it as a sensor_msgs/JointState.        *)
(*                                                                         *)
(* The controller object is the record cb, whose fields carry the names of *)
(* the C++ members.  The caller's thread runs open/attach/attachAll/       *)
(* detach/detachAll/close, one at a time; the periodic worker runs run()   *)
(* in two steps (the reads, then conversion and publish), so that a caller *)
(* operation can fall between them.                                        *)
(***************************************************************************)
EXTENDS Integers, Sequences, FiniteSets, TLC

\* ------------------------------------------------------------------ bounds
MaxJoints == 2     \* joints of the largest device
MaxCycles == 2     \* invocations of run() in one behaviour
MaxOwned  == 1     \* PolyDriver instances open() may create in one behaviour
MaxOps    == 4     \* operations the caller starts in one behaviour

\* period values are in milliseconds
default_period == 20

\* ----------------------------------------------------------------- devices
\* A device pointer is [kind, id, prof]: kind "ext" is a driver the caller
\* owns, kind "own" a PolyDriver instance created by open(), NullDev nullptr.
NullDev == [kind |-> "null", id |-> 0, prof |-> "null"]

Prof(v, p, e, t, a, aok, n, nf) ==
    [valid |-> v, pos |-> p, enc |-> e, trq |-> t, axi |-> a,
     axesOk |-> aok, axes |-> n, nameFail |-> nf]

\* What a driver answers to view(), getAxes() and getAxisName():
\* nameFail is the first joint whose name query fails (0: none fails).
Profile(prof) ==
    CASE prof = "goodT"    -> Prof(TRUE, TRUE, TRUE, TRUE, TRUE, TRUE, 1, 0)
      [] prof = "goodN"    -> Prof(TRUE, TRUE, TRUE, FALSE, TRUE, TRUE, MaxJoints, 0)
      [] prof = "noPos"    -> Prof(TRUE, FALSE, TRUE, TRUE, TRUE, TRUE, 1, 0)
      [] prof = "noEnc"    -> Prof(TRUE, TRUE, FALSE, TRUE, TRUE, TRUE, 1, 0)
      [] prof = "noAxis"   -> Prof(TRUE, TRUE, TRUE, TRUE, FALSE, TRUE, 1, 0)
      [] prof = "axesFail" -> Prof(TRUE, TRUE, TRUE, TRUE, TRUE, FALSE, 1, 0)
      [] prof = "axes0"    -> Prof(TRUE, TRUE, TRUE, TRUE, TRUE, TRUE, 0, 0)
      [] prof = "nameFail" -> Prof(TRUE, TRUE, TRUE, FALSE, TRUE, TRUE, MaxJoints, MaxJoints)
      [] prof = "noType"   -> Prof(TRUE, TRUE, TRUE, FALSE, TRUE, TRUE, MaxJoints, 0)
      [] prof = "invalid"  -> Prof(FALSE, FALSE, FALSE, FALSE, FALSE, FALSE, 0, 0)
      [] OTHER             -> Prof(FALSE, FALSE, FALSE, FALSE, FALSE, FALSE, 0, 0)

ExtProfs == <<"goodT", "goodN", "noPos", "noEnc", "noAxis",
              "axesFail", "axes0", "nameFail", "invalid", "noType">>

\* the device types a "subdevice" setting may name
SubdevSpecs == {"goodT", "goodN", "noAxis", "nameFail", "invalid"}

\* the drivers the caller may pass to attach()/attachAll()
ExtDevs == {[kind |-> "ext", id |-> i, prof |-> ExtProfs[i]] : i \in 1..Len(ExtProfs)}

\* PolyDriver::isValid()
isValid(d) == Profile(d.prof).valid

\* DeviceDriver::view(T*&): the interface pointer, nullptr when the driver
\* does not implement it
view(d, iface) ==
    LET p == Profile(d.prof)
        has == CASE iface = "pos" -> p.pos
                 [] iface = "enc" -> p.enc
                 [] iface = "trq" -> p.trq
                 [] iface = "axi" -> p.axi
    IN IF has THEN d ELSE NullDev

\* IAxisInfo::getAxisName(i, name): the name and whether the query succeeded
AxisNameOk(d, i) ==
    LET p == Profile(d.prof) IN i <= p.axes /\ (p.nameFail = 0 \/ i < p.nameFail)

AxisName(d, i) == <<d.prof, i>>

\* IAxisInfo::getJointType(i, jType): odd joints are revolute, even ones not;
\* a "noType" driver does not implement the query, which then returns false
\* and leaves jType as it was
JointTypeKnown(d, i) == i <= Profile(d.prof).axes /\ d.prof # "noType"

IsRevolute(d, i) == i % 2 = 1

\* ------------------------------------------------------------------ values
\* A double is [n, k], the real number n * (pi/180)^k: convertDegreesToRadians
\* is exact on it, and two such values are equal only if they are the same
\* number (pi is transcendental).
Val(n) == [n |-> n, k |-> 0]

Zero == Val(0)

convertDegreesToRadians(degrees) ==
    IF degrees.n = 0 THEN degrees ELSE [n |-> degrees.n, k |-> degrees.k + 1]

\* std::vector<T>::resize(n): keeps the first n elements, value-initialises
\* the new ones
Resize(v, n, fill) == [i \in 1..n |-> IF i <= Len(v) THEN v[i] ELSE fill]

\* ------------------------------------------------------------ the object
\* ros_struct after construction; stamp is header.stamp
EmptyMsg ==
    [stamp |-> 0, name |-> <<>>, position |-> <<>>, velocity |-> <<>>, effort |-> <<>>]

\* a yarp::os::Stamp holding the quotient sum / n
Average(sum, n) == [sum |-> sum, n |-> n]

\* the members after construction
NewControlBoard ==
    [subdevice_ptr    |-> NullDev,
     subdevice_owned  |-> FALSE,
     subdevice_joints |-> 0,
     subdevice_ready  |-> FALSE,
     times            |-> <<>>,
     ros_struct       |-> EmptyMsg,
     jointNames       |-> <<>>,
     time             |-> Average(0, 1),
     nodeName         |-> "",
     topicName        |-> "",
     period           |-> default_period,
     m_publisher      |-> FALSE,
     iPositionControl |-> NullDev,
     iEncodersTimed   |-> NullDev,
     iTorqueControl   |-> NullDev,
     iAxisInfo        |-> NullDev,
     counter          |-> 0]

\* updateAxisName(): the names are collected in a temporary and stored only
\* when every query succeeded
updateAxisName(s) ==
    IF \E i \in 1..s.subdevice_joints : ~AxisNameOk(s.iAxisInfo, i)
    THEN [s |-> s, ret |-> FALSE]
    ELSE [s |-> [s EXCEPT !.jointNames =
                     [i \in 1..s.subdevice_joints |-> AxisName(s.iAxisInfo, i)]],
          ret |-> TRUE]

\* the allocation of the buffers in setDevice
ResizeBuffers(s, n) ==
    [s EXCEPT !.subdevice_joints = n,
              !.times = Resize(s.times, n, 0),
              !.ros_struct = [stamp    |-> s.ros_struct.stamp,
                              name     |-> Resize(s.ros_struct.name, n, <<>>),
                              position |-> Resize(s.ros_struct.position, n, Zero),
                              velocity |-> Resize(s.ros_struct.velocity, n, Zero),
                              effort   |-> Resize(s.ros_struct.effort, n, Zero)]]

\* setDevice(driver, owned): every early return keeps what was stored so far
setDevice(s, driver, owned) ==
    LET s1 == [s EXCEPT !.subdevice_ptr = driver,
                        !.subdevice_owned = owned,
                        !.iPositionControl = view(driver, "pos")]
        s2 == [s1 EXCEPT !.iEncodersTimed = view(driver, "enc")]
        s3 == [s2 EXCEPT !.iTorqueControl = view(driver, "trq")]
        s4 == [s3 EXCEPT !.iAxisInfo = view(driver, "axi")]
        p  == Profile(driver.prof)
    IN  IF s1.iPositionControl = NullDev THEN [s |-> s1, ret |-> FALSE]
        ELSE IF s2.iEncodersTimed = NullDev THEN [s |-> s2, ret |-> FALSE]
        ELSE IF s4.iAxisInfo = NullDev THEN [s |-> s4, ret |-> FALSE]
        ELSE IF ~p.axesOk THEN [s |-> s4, ret |-> FALSE]
        ELSE IF p.axes <= 0 THEN [s |-> s4, ret |-> FALSE]
        ELSE updateAxisName(ResizeBuffers(s4, p.axes))

\* closeDevice() that forgets to reset subdevice_ready
closeDevice_keepsReady(s) ==
    [s EXCEPT !.subdevice_ptr = NullDev,
              !.subdevice_owned = FALSE,
              !.subdevice_joints = 0,
              !.times = <<>>,
              !.iPositionControl = NullDev,
              !.iEncodersTimed = NullDev,
              !.iTorqueControl = NullDev,
              !.iAxisInfo = NullDev]

\* closeDevice() that forgets to reset subdevice_owned
closeDevice_keepsOwned(s) ==
    [s EXCEPT !.subdevice_ptr = NullDev,
              !.subdevice_joints = 0,
              !.subdevice_ready = FALSE,
              !.times = <<>>,
              !.iPositionControl = NullDev,
              !.iEncodersTimed = NullDev,
              !.iTorqueControl = NullDev,
              !.iAxisInfo = NullDev]

\* the device closeDevice() closes and deletes: the bound one when it is owned
DeviceToDelete(s) == IF s.subdevice_owned THEN {s.subdevice_ptr} ELSE {}

\* closeDevice(): the members afterwards
closeDevice(s) ==
    [s EXCEPT !.subdevice_ptr = NullDev,
              !.subdevice_owned = FALSE,
              !.subdevice_joints = 0,
              !.subdevice_ready = FALSE,
              !.times = <<>>,
              !.iPositionControl = NullDev,
              !.iEncodersTimed = NullDev,
              !.iTorqueControl = NullDev,
              !.iAxisInfo = NullDev]

\* ------------------------------------------------------------------ open()
\* the settings open() reads
PeriodSettings ==
    {[present |-> FALSE, isFloat64 |-> FALSE, value |-> 0],
     [present |-> TRUE,  isFloat64 |-> FALSE, value |-> 0],
     [present |-> TRUE,  isFloat64 |-> TRUE,  value |-> 0],
     [present |-> TRUE,  isFloat64 |-> TRUE,  value |-> 50]}

Configs ==
    [period : PeriodSettings, subdevice : SubdevSpecs \cup {"none"},
     hasNodeName : BOOLEAN, hasTopicName : BOOLEAN]

\* open(), the "period" parameter: the value is stored before it is checked
openPeriod(s, c) ==
    IF c.period.present
    THEN IF ~c.period.isFloat64
         THEN [s |-> s, ret |-> FALSE]
         ELSE [s |-> [s EXCEPT !.period = c.period.value],
               ret |-> c.period.value > 0]
    ELSE [s |-> [s EXCEPT !.period = default_period], ret |-> TRUE]

\* openAndAttachSubDevice(): inst is the PolyDriver it has just created
openAndAttachSubDevice(s, inst) ==
    IF ~isValid(inst) THEN [s |-> s, ret |-> FALSE] ELSE setDevice(s, inst, TRUE)

\* open(), the "subdevice" parameter
openSubdevice(s, c, inst) ==
    IF c.subdevice # "none"
    THEN LET r == openAndAttachSubDevice(s, inst)
         IN  IF ~r.ret THEN r
             ELSE [s |-> [r.s EXCEPT !.subdevice_ready = TRUE], ret |-> TRUE]
    ELSE [s |-> s, ret |-> TRUE]

\* open(), nodeName, topicName and the publisher
openNames(s, c) ==
    IF ~c.hasNodeName THEN [s |-> s, ret |-> FALSE]
    ELSE LET s1 == [s EXCEPT !.nodeName = "node"]
         IN  IF ~c.hasTopicName THEN [s |-> s1, ret |-> FALSE]
             ELSE [s |-> [s1 EXCEPT !.topicName = "topic", !.m_publisher = TRUE],
                   ret |-> TRUE]

\* open(config): the members afterwards, the result when start() is not
\* reached, whether start() is reached, and the binding it made ("self": the
\* subdevice it created, "": none)
open(s, c, inst) ==
    LET r1 == openPeriod(s, c)
        r2 == openSubdevice(r1.s, c, inst)
        r3 == openNames(r2.s, c)
        b  == IF c.subdevice # "none" THEN "self" ELSE ""
    IN  IF ~r1.ret THEN [s |-> r1.s, ret |-> FALSE, start |-> FALSE, bind |-> ""]
        ELSE IF ~r2.ret THEN [s |-> r2.s, ret |-> FALSE, start |-> FALSE, bind |-> ""]
        ELSE IF ~r3.ret THEN [s |-> r3.s, ret |-> FALSE, start |-> FALSE, bind |-> b]
        ELSE [s |-> r3.s, ret |-> TRUE, start |-> r3.s.subdevice_ready, bind |-> b]

\* whether open(c) reaches `new PolyDriver`
CreatesSubdevice(s, c) == openPeriod(s, c).ret /\ c.subdevice # "none"

\* ------------------------------------------------------- attach(), detach()
\* attach() without its check of subdevice_ready
AttachRejects_never(s) == FALSE

\* attach(): "if we already instantiated a subdevice previously"
AttachRejects(s) == s.subdevice_ready

\* attach(poly)
attach(s, poly) ==
    IF AttachRejects(s) THEN [s |-> s, ret |-> FALSE, start |-> FALSE, bind |-> ""]
    ELSE LET r == setDevice(s, poly, FALSE)
         IN  [s |-> r.s, ret |-> r.ret, start |-> r.ret,
              bind |-> IF r.ret THEN "ext" ELSE ""]

\* the lists attachAll() is called with
DevLists ==
    {<<>>} \cup {<<d>> : d \in {x \in ExtDevs : x.prof \in {"goodT", "goodN", "nameFail", "invalid"}}}
           \cup {<<d, e>> : d \in {x \in ExtDevs : x.id = 1}, e \in {x \in ExtDevs : x.id <= 2}}

\* attachAll() without its check of isValid()
attachAll_noValidCheck(s, p) ==
    IF Len(p) < 1 THEN [s |-> s, ret |-> FALSE, start |-> FALSE, bind |-> ""]
    ELSE IF Len(p) > 1 THEN [s |-> s, ret |-> FALSE, start |-> FALSE, bind |-> ""]
    ELSE attach(s, p[1])

\* attachAll(p)
attachAll(s, p) ==
    IF Len(p) < 1 THEN [s |-> s, ret |-> FALSE, start |-> FALSE, bind |-> ""]
    ELSE IF Len(p) > 1 THEN [s |-> s, ret |-> FALSE, start |-> FALSE, bind |-> ""]
    ELSE IF ~isValid(p[1]) THEN [s |-> s, ret |-> FALSE, start |-> FALSE, bind |-> ""]
    ELSE attach(s, p[1])

\* detach() without its check of subdevice_owned
DetachRejects_never(s) == FALSE

\* detach(): "if we already instantiated a subdevice previously"
DetachRejects(s) == s.subdevice_owned

\* ------------------------------------------------------------------- state
VARIABLES
    cb,             \* the ControlBoard_nws_ros2 object
    running,        \* PeriodicThread::isRunning()
    thread_period,  \* the period given to the PeriodicThread
    wpc,            \* the worker: "idle" between cycles, "read" inside run()
    cyc,            \* what the reads of the cycle in flight did
    cpc,            \* the caller: "idle", or the operation blocked in stop()
    created,        \* PolyDriver instances created by open() so far
    deleted,        \* devices closed and deleted by closeDevice()
    deletedTwice,   \* devices deleted again
    aborted,        \* a yCAssert failed or a null pointer was dereferenced
    lastOp,         \* the last operation the caller completed, and its result
    lastMsg,        \* the last message published under the current binding
    stopReturned,   \* close() or a successful detach() has returned and the
                    \* loop has not been started since
    bound,          \* the binding in force: "ext" after a successful attach(),
                    \* "self" after open() bound its subdevice, "none" after
                    \* closeDevice()
    ops             \* operations the caller has started

vars == <<cb, running, thread_period, wpc, cyc, cpc, created, deleted,
          deletedTwice, aborted, lastOp, lastMsg, stopReturned, bound, ops>>

NoCycle == [posOk |-> TRUE, velOk |-> TRUE, torque |-> FALSE, val |-> 0]

\* the record of a completed operation: its name, its result, whether it
\* waited in stop() for a cycle in flight, and the operation completed before
Returned(op, ret, waited) ==
    [op |-> op, ret |-> ret, waited |-> waited, prev |-> ""]

Init ==
    /\ cb = NewControlBoard
    /\ running = FALSE
    /\ thread_period = default_period
    /\ wpc = "idle"
    /\ cyc = NoCycle
    /\ cpc = "idle"
    /\ created = 0
    /\ deleted = {}
    /\ deletedTwice = {}
    /\ aborted = FALSE
    /\ lastOp = Returned("none", TRUE, FALSE)
    /\ lastMsg = <<>>
    /\ stopReturned = FALSE
    /\ bound = "none"
    /\ ops = 0

\* ------------------------------------------------------ the caller's thread
CallerReady == cpc = "idle" /\ ~aborted /\ ops < MaxOps

\* the caller starts an operation
Called == ops' = ops + 1

\* the caller's operation returns
Returns(op, ret, waited) ==
    lastOp' = [Returned(op, ret, waited) EXCEPT !.prev = lastOp.op]

\* The end of open/attach/attachAll. r is the operation's outcome [s, ret,
\* start].  start() on a thread that is not running starts it and returns
\* true; on a running thread it leaves a thread running and returns either.
Finish(op, r) ==
    /\ cb' = r.s
    /\ lastMsg' = IF r.s.subdevice_ptr # cb.subdevice_ptr THEN <<>> ELSE lastMsg
    /\ bound' = IF r.bind # "" THEN r.bind ELSE bound
    /\ IF r.start
       THEN /\ running' = TRUE
            /\ thread_period' = r.s.period
            /\ stopReturned' = FALSE
            /\ \E b \in BOOLEAN :
                 /\ (~running => b)
                 /\ Returns(op, b, FALSE)
       ELSE /\ Returns(op, r.ret, FALSE)
            /\ UNCHANGED <<running, thread_period, stopReturned>>
    /\ UNCHANGED <<wpc, cyc, cpc, deleted, deletedTwice, aborted>>

Open(c) ==
    /\ CallerReady
    /\ Called
    /\ CreatesSubdevice(cb, c) => created < MaxOwned
    /\ LET inst == [kind |-> "own", id |-> created + 1, prof |-> c.subdevice]
       IN  Finish("open", open(cb, c, inst))
    /\ created' = IF CreatesSubdevice(cb, c) THEN created + 1 ELSE created

Attach(poly) ==
    /\ CallerReady
    /\ Called
    /\ Finish("attach", attach(cb, poly))
    /\ UNCHANGED created

AttachAll(p) ==
    /\ CallerReady
    /\ Called
    /\ Finish("attachAll", attachAll(cb, p))
    /\ UNCHANGED created

\* close() and detach() without the stop() of the running thread
MustStop_never == FALSE

\* close() and detach(): "if (isRunning()) stop()"
MustStop == running

\* stop() returns once the thread has left run() and ended; then closeDevice()
StopAndCloseDevice(op) ==
    /\ running' = IF MustStop THEN FALSE ELSE running
    /\ IF cb.subdevice_owned /\ cb.subdevice_ptr = NullDev
       THEN /\ aborted' = TRUE
            /\ UNCHANGED <<cb, deleted, deletedTwice, lastOp, lastMsg,
                           stopReturned, bound>>
       ELSE /\ cb' = closeDevice(cb)
            /\ deleted' = deleted \cup DeviceToDelete(cb)
            /\ deletedTwice' = deletedTwice \cup (deleted \cap DeviceToDelete(cb))
            /\ Returns(op, TRUE, cpc # "idle")
            /\ lastMsg' = <<>>
            /\ stopReturned' = TRUE
            /\ bound' = "none"
            /\ UNCHANGED aborted
    /\ cpc' = "idle"
    /\ UNCHANGED <<thread_period, wpc, cyc, created>>

\* the caller enters stop() while a cycle is in flight, and waits
StopOrWait(op) ==
    IF MustStop /\ wpc # "idle"
    THEN /\ cpc' = op
         /\ UNCHANGED <<cb, running, thread_period, wpc, cyc, created, deleted,
                        deletedTwice, aborted, lastOp, lastMsg, stopReturned, bound>>
    ELSE StopAndCloseDevice(op)

Rejected(op) ==
    /\ Returns(op, FALSE, FALSE)
    /\ UNCHANGED <<cb, running, thread_period, wpc, cyc, cpc, created, deleted,
                   deletedTwice, aborted, lastMsg, stopReturned, bound>>

Detach ==
    /\ CallerReady
    /\ Called
    /\ IF DetachRejects(cb) THEN Rejected("detach") ELSE StopOrWait("detach")

DetachAll ==
    /\ CallerReady
    /\ Called
    /\ IF DetachRejects(cb) THEN Rejected("detachAll") ELSE StopOrWait("detachAll")

Close ==
    /\ CallerReady
    /\ Called
    /\ StopOrWait("close")

\* stop() returns to the blocked caller when the cycle in flight has ended
StopReturns ==
    /\ cpc # "idle"
    /\ ~aborted
    /\ wpc = "idle"
    /\ StopAndCloseDevice(cpc)
    /\ UNCHANGED ops

\* ---------------------------------------------------------------- run()
\* what the device answers in one cycle
Samples ==
    {[posOk |-> TRUE,  velOk |-> TRUE,  trqOk |-> TRUE,  val |-> 1],
     [posOk |-> FALSE, velOk |-> TRUE,  trqOk |-> TRUE,  val |-> 1],
     [posOk |-> TRUE,  velOk |-> FALSE, trqOk |-> TRUE,  val |-> 1],
     [posOk |-> TRUE,  velOk |-> TRUE,  trqOk |-> FALSE, val |-> 1]}

RawPos(v, i)  == IF v = 1 THEN (IF i = 1 THEN Val(180) ELSE Val(90)) ELSE Val(45 * i)
RawVel(v, i)  == Val(10 * v)
RawTrq(v, i)  == Val(4 + v)
RawTime(v, i) == 10 * v + i

\* a bulk read into a buffer: the device writes one entry per axis it has,
\* a failed read writes nothing
ReadInto(buf, dev, ok, raw) ==
    [i \in 1..Len(buf) |-> IF ok /\ i <= Profile(dev.prof).axes THEN raw[i] ELSE buf[i]]

\* run(), the assertions and the three reads
runRead(s, smp) ==
    LET P   == [i \in 1..MaxJoints |-> RawPos(smp.val, i)]
        V   == [i \in 1..MaxJoints |-> RawVel(smp.val, i)]
        T   == [i \in 1..MaxJoints |-> RawTrq(smp.val, i)]
        C   == [i \in 1..MaxJoints |-> RawTime(smp.val, i)]
        enc == s.iEncodersTimed
        trq == s.iTorqueControl
    IN  [s EXCEPT
           !.times = ReadInto(s.times, enc, smp.posOk, C),
           !.ros_struct.position = ReadInto(s.ros_struct.position, enc, smp.posOk, P),
           !.ros_struct.velocity = ReadInto(s.ros_struct.velocity, enc, smp.velOk, V),
           !.ros_struct.effort =
               IF trq # NullDev
               THEN ReadInto(s.ros_struct.effort, trq, smp.trqOk, T)
               ELSE s.ros_struct.effort]

RunRead(smp) ==
    /\ running /\ wpc = "idle" /\ cpc = "idle" /\ ~aborted
    /\ cb.counter < MaxCycles
    /\ IF cb.iEncodersTimed = NullDev \/ cb.iAxisInfo = NullDev
       THEN /\ aborted' = TRUE
            /\ UNCHANGED <<cb, wpc, cyc>>
       ELSE /\ cb' = runRead(cb, smp)
            /\ wpc' = "read"
            /\ cyc' = [posOk |-> smp.posOk, velOk |-> smp.velOk,
                       torque |-> cb.iTorqueControl # NullDev, val |-> smp.val]
            /\ UNCHANGED aborted
    /\ UNCHANGED <<running, thread_period, cpc, created, deleted, deletedTwice,
                   lastOp, lastMsg, stopReturned, bound, ops>>

\* what jType holds at each joint of the loop (TRUE: revolute): the joint's
\* own type when the query succeeds; when it fails jType keeps the value of
\* the joint before, and for the first joint it is an uninitialised local
JointTypes(s) ==
    {jt \in [1..s.subdevice_joints -> BOOLEAN] :
        \A i \in 1..s.subdevice_joints :
            IF JointTypeKnown(s.iAxisInfo, i)
            THEN jt[i] = IsRevolute(s.iAxisInfo, i)
            ELSE i > 1 => jt[i] = jt[i - 1]}

\* std::accumulate(times.begin(), times.end(), 0.0)
RECURSIVE accumulate(_)
accumulate(v) == IF v = <<>> THEN 0 ELSE Head(v) + accumulate(Tail(v))

\* the readings of the node's clock
NowValues == {11, 12}

\* run(), the average of the timestamps, the conversion of the revolute
\* joints and the message, stamped with the reading now of the node's clock
runConvert(s, jt, now) ==
    LET conv(v) == [i \in 1..Len(v) |->
                       IF i <= s.subdevice_joints /\ jt[i]
                       THEN convertDegreesToRadians(v[i]) ELSE v[i]]
    IN  [s EXCEPT !.time = Average(accumulate(s.times), s.subdevice_joints),
                  !.ros_struct.position = conv(s.ros_struct.position),
                  !.ros_struct.velocity = conv(s.ros_struct.velocity),
                  !.ros_struct.name = s.jointNames,
                  !.ros_struct.stamp = now,
                  !.counter = s.counter + 1]

RunPublish(now) ==
    /\ wpc = "read" /\ ~aborted
    /\ IF cb.iAxisInfo = NullDev \/ ~cb.m_publisher
       THEN /\ aborted' = TRUE
            /\ UNCHANGED <<cb, wpc, lastMsg>>
       ELSE \E jt \in JointTypes(cb) :
            /\ cb' = runConvert(cb, jt, now)
            /\ wpc' = "idle"
            /\ lastMsg' = <<[msg |-> cb'.ros_struct, posOk |-> cyc.posOk,
                             velOk |-> cyc.velOk,
                             torque |-> cyc.torque \/ cb.iTorqueControl # NullDev]>>
            /\ UNCHANGED aborted
    /\ cyc' = NoCycle
    /\ UNCHANGED <<running, thread_period, cpc, created, deleted, deletedTwice,
                   lastOp, stopReturned, bound, ops>>

\* ------------------------------------------------------------ specification
\* the steps of the program over given inputs: the configurations open() is
\* given, the drivers and lists attach()/attachAll() are given, the answers
\* of the device to the reads of a cycle, and the readings of the clock
NextOn(Cfgs, Devs, Lists, Smps, Nows) ==
    \/ \E c \in Cfgs : Open(c)
    \/ \E poly \in Devs : Attach(poly)
    \/ \E p \in Lists : AttachAll(p)
    \/ Detach
    \/ DetachAll
    \/ Close
    \/ StopReturns
    \/ \E smp \in Smps : RunRead(smp)
    \/ \E now \in Nows : RunPublish(now)

\* Spec: every driver and subdevice, the default period, a device that
\* answers every read, one reading of the clock
DefaultPeriodConfigs == {c \in Configs : ~c.period.present}

OkSamples == {smp \in Samples : smp.posOk /\ smp.velOk /\ smp.trqOk}

OneNow == {now \in NowValues : \A other \in NowValues : now >= other}

Next == NextOn(DefaultPeriodConfigs, ExtDevs, DevLists, OkSamples, OneNow)

Spec == Init /\ [][Next]_vars

\* SpecRun: every period setting and reads that may fail, on drivers that bind
RunConfigs == {c \in Configs : c.subdevice \in {"none", "goodT"}}

RunDevs == {d \in ExtDevs : d.prof \in {"goodT", "goodN"}}

RunLists == {p \in DevLists : \A i \in 1..Len(p) : p[i] \in RunDevs}

NextRun == NextOn(RunConfigs, RunDevs, RunLists, Samples, NowValues)

SpecRun == Init /\ [][NextRun]_vars

\* ------------------------------------------------------------------ claims
\* no device is bound: no pointer, no ownership, no capability, no joints
NoBinding(s) ==
    /\ s.subdevice_ptr = NullDev
    /\ ~s.subdevice_owned
    /\ ~s.subdevice_ready
    /\ s.subdevice_joints = 0
    /\ s.iPositionControl = NullDev
    /\ s.iEncodersTimed = NullDev
    /\ s.iTorqueControl = NullDev
    /\ s.iAxisInfo = NullDev

\* no Sample Buffer is allocated and the Joint Name Table is empty
NoBuffers(s) ==
    /\ s.times = <<>>
    /\ s.ros_struct = EmptyMsg
    /\ s.jointNames = <<>>

\* the controller is Closed: nothing bound, no publisher, no loop
Closed == NoBinding(cb) /\ ~cb.m_publisher /\ ~running

\* C1: open() of a Closed controller with nodeName or topicName absent returns
\* false and leaves it Closed: nothing bound or owned, no publisher, no loop.
C1_OpenWithoutNamesStaysClosed ==
    [][\A c \in Configs :
          (Closed /\ Open(c) /\ (~c.hasNodeName \/ ~c.hasTopicName))
          => (~lastOp'.ret /\ Closed')]_vars

\* C2: once attach(d1) has succeeded, and until detach() or close(), every
\* further attach(d2) returns false and changes neither the binding nor the loop.
C2_SecondAttachRejected ==
    [][\A d \in ExtDevs :
          (bound = "ext" /\ Attach(d))
          => (~lastOp'.ret /\ cb' = cb /\ running' = running)]_vars

\* C3: close() and a successful detach() return only when no cycle is in
\* flight, and run() publishes nothing (counter does not advance) once they
\* have returned, until the loop is started again.
C3_StopWaitsForCycle ==
    [][/\ stopReturned' => wpc' = "idle"
       /\ cb'.counter # cb.counter => ~stopReturned]_vars

\* close() has returned after waiting in stop() for a cycle that then published
C3_Witness ==
    /\ stopReturned /\ lastOp.op = "close" /\ lastOp.waited
    /\ cb.counter > 0 /\ wpc = "idle" /\ ~running

\* the step in which detach() or detachAll() runs: the call, or the return of
\* the stop() it waited in
DetachStep ==
    Detach \/ DetachAll \/ (StopReturns /\ cpc \in {"detach", "detachAll"})

\* the step in which close() runs
CloseStep == Close \/ (StopReturns /\ cpc = "close")

\* C4: while the binding is the subdevice open() created, detach() and
\* detachAll() return false and change nothing: the device stays bound and
\* undeleted, the loop keeps its state.
C4_DetachOfSelfOwnedRejected ==
    [][(bound = "self" /\ DetachStep)
       => (~lastOp'.ret /\ UNCHANGED <<cb, running, wpc, cpc, deleted, deletedTwice>>)]_vars

\* detach() was rejected on a running self-owned binding
C4_Witness ==
    /\ bound = "self" /\ lastOp.op = "detach" /\ ~lastOp.ret
    /\ running /\ cb.subdevice_ptr.kind = "own" /\ cb.subdevice_ptr \notin deleted

\* the drivers setDevice() accepts
Binds(d) == setDevice(NewControlBoard, d, FALSE).ret

\* C5: detach() right after a successful attach() returns true with the loop
\* stopped and nothing bound, and attach() of a driver that binds, right after
\* such a detach(), is accepted and starts the loop again.
C5_AttachDetachRoundTrip ==
    [][/\ (lastOp.op \in {"attach", "attachAll"} /\ lastOp.ret /\ DetachStep)
          => \/ cpc' # "idle"
             \/ (lastOp'.ret /\ ~running' /\ NoBinding(cb') /\ ~aborted')
       /\ \A d \in ExtDevs :
            (lastOp.op \in {"detach", "detachAll"} /\ lastOp.ret /\ Binds(d) /\ Attach(d))
            => (lastOp'.ret /\ running' /\ cb'.subdevice_ptr = d
                /\ cb'.subdevice_joints > 0)]_vars

\* open() without subdevice, attach(), a published cycle, detach(), attach()
C5_Witness ==
    /\ ops = 4 /\ created = 0 /\ cb.m_publisher
    /\ lastOp.op = "attach" /\ lastOp.ret /\ lastOp.prev = "detach"
    /\ cb.counter > 0 /\ lastMsg = <<>> /\ running /\ bound = "ext"

\* the step in which attach() or attachAll() runs
AttachStep ==
    (\E d \in ExtDevs : Attach(d)) \/ (\E p \in DevLists : AttachAll(p))

\* C6: while the binding is the subdevice open() created, attach() and
\* attachAll() return false and change neither the binding nor the loop.
C6_AttachAfterSelfBindRejected ==
    [][(bound = "self" /\ AttachStep)
       => (~lastOp'.ret /\ UNCHANGED <<cb, running, wpc, cpc, deleted, deletedTwice>>)]_vars

\* attach() was rejected right after open() bound and started its subdevice
C6_Witness ==
    /\ bound = "self" /\ lastOp.op = "attach" /\ ~lastOp.ret /\ lastOp.prev = "open"
    /\ running /\ cb.subdevice_owned /\ cb.subdevice_ptr.kind = "own"

\* C7: close() returns true with the loop stopped and nothing bound, and a
\* close() right after a close() returns true, changes nothing and deletes
\* no device.
C7_CloseIdempotent ==
    [][/\ CloseStep
          => \/ cpc' = "close"
             \/ (lastOp'.op = "close" /\ lastOp'.ret /\ ~running'
                 /\ NoBinding(cb') /\ ~aborted')
       /\ (lastOp.op = "close" /\ Close)
          => (lastOp'.ret /\ UNCHANGED <<cb, running, wpc, cpc, deleted,
                                         deletedTwice, aborted>>)]_vars

\* close() twice in a row, the first of which deleted the owned subdevice
C7_Witness ==
    /\ lastOp.op = "close" /\ lastOp.prev = "close" /\ lastOp.ret
    /\ deleted # {} /\ deletedTwice = {} /\ NoBinding(cb) /\ ~running

\* C8: when setDevice() fails in attach() on an unbound controller, nothing of
\* the binding is retained: no pointer, no capability, joint count 0, no
\* buffer, no joint name.
C8_FailedBindRolledBack ==
    [][\A d \in ExtDevs :
          (NoBinding(cb) /\ NoBuffers(cb) /\ Attach(d) /\ ~Binds(d))
          => (~lastOp'.ret /\ NoBinding(cb') /\ NoBuffers(cb'))]_vars

\* C9: a message published while the bound device has no torque capability
\* has all efforts zero.
C9_NoTorqueZeroEffort ==
    (lastMsg # <<>> /\ ~lastMsg[1].torque)
    => \A i \in 1..Len(lastMsg[1].msg.effort) : lastMsg[1].msg.effort[i] = Zero

\* C10: every run() publishes one message, and a cycle whose position (or
\* velocity) read failed publishes the positions (velocities) of the cycle
\* before.
C10_FailedReadRepublishesPrevious ==
    [][(\E now \in NowValues : RunPublish(now))
       => \/ aborted'
          \/ /\ cb'.counter = cb.counter + 1
             /\ (lastMsg # <<>> /\ ~cyc.posOk)
                => lastMsg'[1].msg.position = lastMsg[1].msg.position
             /\ (lastMsg # <<>> /\ ~cyc.velOk)
                => lastMsg'[1].msg.velocity = lastMsg[1].msg.velocity]_vars

\* the step in which run() converts and publishes
PublishStep == \E now \in NowValues : RunPublish(now)

\* what a cycle should publish for a raw reading of joint i: the reading
\* converted once when the device classifies joint i as revolute, the reading
\* itself otherwise
Expected(d, i, raw) ==
    IF JointTypeKnown(d, i) /\ IsRevolute(d, i)
    THEN convertDegreesToRadians(raw) ELSE raw

\* C11: in a cycle whose reads succeed, every joint's published position and
\* velocity is its raw reading converted degrees-to-radians exactly once if
\* the joint is classified revolute, and the raw reading unchanged otherwise.
C11_ConversionPerJointType ==
    [][(PublishStep /\ ~aborted' /\ cyc.posOk /\ cyc.velOk)
       => \A i \in 1..cb.subdevice_joints :
            /\ cb'.ros_struct.position[i]
                 = Expected(cb.iAxisInfo, i, RawPos(cyc.val, i))
            /\ cb'.ros_struct.velocity[i]
                 = Expected(cb.iAxisInfo, i, RawVel(cyc.val, i))]_vars

\* C12: every published message is stamped with the arithmetic mean of the
\* per-joint timestamps read in its cycle.
C12_StampIsMeanOfTimestamps ==
    [][(PublishStep /\ ~aborted')
       => /\ cb.subdevice_joints > 0
          /\ cb'.time = Average(accumulate(cb.times), cb.subdevice_joints)
          /\ cb'.ros_struct.stamp * cb'.time.n = cb'.time.sum]_vars

\* the period a configuration asks for: the given value, or the default
GivenPeriod(c) == IF c.period.present THEN c.period.value ELSE default_period

\* C13: the stored period is > 0 in every reachable state; only a successful
\* open() changes it, to the given value or to the default when `period` is
\* omitted (so an open() that fails leaves the effective period alone); and
\* every time the loop is started it runs with the stored period.
C13_PeriodPositiveFromLastOpen ==
    /\ [](cb.period > 0)
    /\ [][/\ cb'.period # cb.period
              => \E c \in Configs : Open(c) /\ lastOp'.ret
          /\ (ops' # ops /\ lastOp'.op = "open" /\ lastOp'.ret)
              => \A c \in Configs : Open(c) => cb'.period = GivenPeriod(c)
          /\ (~running /\ running') => thread_period' = cb'.period]_vars

\* the step has the result and the effect of attach(d) on the controller
EffectOfAttach(d) ==
    LET r == attach(cb, d)
    IN  /\ cb' = r.s
        /\ IF r.start
           THEN running' /\ thread_period' = r.s.period /\ (~running => lastOp'.ret)
           ELSE lastOp'.ret = r.ret /\ UNCHANGED <<running, thread_period>>
        /\ UNCHANGED <<wpc, cyc, cpc, created, deleted, deletedTwice, aborted>>

\* C14: attachAll(list) returns false and changes no controller state when
\* the list is empty, has more than one entry, or its single device is not
\* valid; with exactly one valid device its result and effect are those of
\* attach() on that device.
C14_AttachAllIsAttachOfOne ==
    [][(ops' # ops /\ lastOp'.op = "attachAll")
       => \A p \in DevLists :
            AttachAll(p)
            => IF Len(p) # 1 \/ ~isValid(p[1])
               THEN /\ ~lastOp'.ret
                    /\ UNCHANGED <<cb, running, thread_period, wpc, cyc, cpc,
                                   created, deleted, deletedTwice, aborted>>
               ELSE EffectOfAttach(p[1])]_vars

\* attachAll() of a list of one valid driver has bound it and started the loop
C14_Witness ==
    /\ lastOp.op = "attachAll" /\ lastOp.ret /\ running
    /\ cb.subdevice_ptr.kind = "ext" /\ ~cb.subdevice_owned
    /\ cb.subdevice_joints > 0 /\ bound = "ext"

\* what the worker reads and writes in run(): the capability references, the
\* joint count, the Sample Buffer and the Joint Name Table
WorkerData(s) ==
    <<s.iPositionControl, s.iEncodersTimed, s.iTorqueControl, s.iAxisInfo,
      s.subdevice_joints, s.times, s.ros_struct, s.jointNames>>

\* C15: an operation of the caller that finds the loop running and does not
\* stop it (open, attach, attachAll, a rejected detach) writes none of the
\* data the worker uses; every such write happens before the loop is started
\* or after stop() has returned.
C15_NoCallerWriteWhileRunning ==
    [][(running /\ running' /\ ops' # ops)
       => WorkerData(cb') = WorkerData(cb)]_vars

\* C16: the loop is running only in a controller whose publisher has been
\* created by open(): attach() on a controller that was never opened does
\* not start the loop.
C16_RunningOnlyWithPublisher == running => cb.m_publisher

\* the PolyDriver instances open() has created so far have all been deleted
AllCreatedDeleted ==
    \A i \in 1..created : \E d \in deleted : d.kind = "own" /\ d.id = i

\* C17: no driver supplied by the caller is ever closed or deleted, no device
\* is deleted twice, and once close() has returned every PolyDriver instance
\* open() created before it has been deleted, whether that open() succeeded
\* or failed and whether or not an attach() followed it.
C17_DestructionGatedOnOwnership ==
    /\ \A d \in deleted : d.kind = "own"
    /\ deletedTwice = {}
    /\ (lastOp.op = "close" /\ ~aborted) => AllCreatedDeleted

\* the step in which run() is invoked
RunStep == \E smp \in Samples : RunRead(smp)

\* C18: the assertions of the code hold whenever they are evaluated: at the
\* start of every run() the timed-encoder and axis-info references are
\* non-null, and whenever closeDevice() finds subdevice_owned true the device
\* pointer is non-null.
C18_AssertionsHold ==
    [][/\ RunStep
          => (cb.iEncodersTimed # NullDev /\ cb.iAxisInfo # NullDev)
       /\ ((CloseStep \/ DetachStep) /\ cpc' = "idle" /\ cb.subdevice_owned)
          => cb.subdevice_ptr # NullDev]_vars

\* the Joint Name Table of a bound driver d with n joints
NameTable(d, n) == [i \in 1..n |-> AxisName(d, i)]

\* C19: every published message carries names, positions, velocities and
\* efforts of length N, the joint count of the bound device; its names are
\* the Joint Name Table captured when that device was bound; and the table
\* changes only in a step that binds or unbinds.
C19_MessageHasJointCountEntries ==
    [][/\ (PublishStep /\ ~aborted')
          => LET m == cb'.ros_struct
                 N == cb.subdevice_joints
             IN  /\ Len(m.name) = N /\ Len(m.position) = N
                 /\ Len(m.velocity) = N /\ Len(m.effort) = N
                 /\ m.name = cb.jointNames
                 /\ m.name = NameTable(cb.subdevice_ptr, N)
       /\ cb'.jointNames # cb.jointNames
          => (cb'.subdevice_ptr # cb.subdevice_ptr /\ cb'.subdevice_ptr # NullDev)]_vars

\* the position, velocity, effort and timestamp sequences all have length n
BufferLengths(s, n) ==
    /\ Len(s.ros_struct.position) = n /\ Len(s.ros_struct.velocity) = n
    /\ Len(s.ros_struct.effort) = n /\ Len(s.times) = n

\* C20: closeDevice(), reached from detach() and close(), returns with no
\* capability reference, joint count 0 and the four sequences of the Sample
\* Buffer empty; in every reachable state the four sequences have the length
\* of the joint count.
C20_UnbindReleasesBinding ==
    /\ [][((CloseStep \/ DetachStep) /\ cpc' = "idle" /\ lastOp'.ret)
          => (NoBinding(cb') /\ BufferLengths(cb', 0) /\ ~aborted')]_vars
    /\ [](BufferLengths(cb, cb.subdevice_joints))

====
